---------------------------- MODULE Spec2Model ----------------------------
(***************************************************************************)
(* Request handlers of the tutoring-marketplace server:                    *)
(*   - search() and the route that renders its result   (search model),    *)
(*   - getSearchCategories()                            (category loader), *)
(*   - GET /dashboard and loadDashboard()               (dashboard),       *)
(*   - POST /tutor-post and createTutorPost()           (tutor post).      *)
(* Every handler is a chain of callbacks: one action per handler or        *)
(* callback, run to completion, as node's event loop runs them.            *)
(*                                                                         *)
(* JavaScript strings are sequences of one-character strings, so that      *)
(* interpolation, tokenisation and LIKE matching are computed.             *)
(***************************************************************************)
EXTENDS Integers, Sequences, FiniteSets

VARIABLES
    tutor_post,     \* rows of tutor_post joined with users, course, major
    sPc,            \* search: "idle" | "querying" | "rendered"
    sQueryParams,   \* request.query: search, category, page
    sPageNum,       \* the local pageNum captured by the query callback
    sQuery,         \* the SQL text handed to database.query (pieces of text)
    sDbDown,        \* whether the connection failed for this query
    sErr,           \* err argument the query callback received
    sResult,        \* result argument the query callback received
    sRequest,       \* the fields search() sets on request
    sCallbacks,     \* how many times search() invoked its continuation
    sView           \* the locals handed to res.render("search", ...)

VARIABLES
    major,          \* rows of the major table
    cPc,            \* category loader: "idle" | "querying" | "done"
    cErr,           \* err argument the query callback received
    cResult,        \* result argument the query callback received
    cRequest,       \* request.majors_short_name, request.majors_long_name
    cLocals,        \* response.locals.searchCategoriesShortName / LongName
    cCallbacks      \* how many times the loader invoked its continuation

VARIABLES
    messages,       \* rows of messages joined with users, for the queried user
    dSession,       \* whether the session of the request is a logged-in one
    dPc,            \* dashboard: "idle" | "validated" | "redirected" |
                    \*   "querying" | "rendered" | "threw"
    dLoginValidated,\* request.loginValidated
    dQueries,       \* how many message queries the request issued
    dErr,           \* err argument the query callback received
    dResult,        \* result argument the query callback received
    dResponses      \* the responses sent, in order

VARIABLES
    pPc,            \* tutor post, per request: "idle" | "threw" | "resizing" |
                    \*   "failed" | "majorQuery" | "rejected" | "courseQuery" |
                    \*   "done"
    pFile,          \* per request: the upload, "none" | "image" | "corrupt"
    pRedirects,     \* per request: how many times res.redirect("/") ran
    fs,             \* the files of the working directory, by path
    pWrites,        \* the requests whose resize wrote its output, in order
    pCrashed        \* an exception escaped a callback and ended the process

searchVars == <<tutor_post, sPc, sQueryParams, sPageNum, sQuery, sDbDown, sErr,
                sResult,
                sRequest, sCallbacks, sView>>

categoryVars == <<major, cPc, cErr, cResult, cRequest, cLocals, cCallbacks>>

dashboardVars == <<messages, dSession, dPc, dLoginValidated, dQueries, dErr,
                   dResult, dResponses>>

postVars == <<pPc, pFile, pRedirects, fs, pWrites, pCrashed>>

vars == <<searchVars, categoryVars, dashboardVars, postVars>>

-----------------------------------------------------------------------------
(* Bounds of the model *)

\* most rows in the tutor_post table
MaxPosts == 12
\* number of attribute layouts the rows of a table are drawn from
Layouts == 2
\* largest 1-based page number a request carries
MaxPage == 4
\* most rows in the major table
MaxMajors == 3
\* most rows the message query returns
MaxMessages == 3

-----------------------------------------------------------------------------
(* JavaScript values *)

JsUndef == [t |-> "undefined", s |-> <<>>, n |-> 0, a |-> <<>>]
JsStr(x) == [t |-> "string", s |-> x, n |-> 0, a |-> <<>>]
JsNum(k) == [t |-> "number", s |-> <<>>, n |-> k, a |-> <<>>]
JsArr(x) == [t |-> "array", s |-> <<>>, n |-> 0, a |-> x]

EmptyStr == JsStr(<<>>)

\* `${v}` in a template literal
UndefinedText == <<"u", "n", "d", "e", "f", "i", "n", "e", "d">>
Interpolate(v) == IF v.t = "undefined" THEN UndefinedText ELSE v.s

\* if(v): undefined and the empty string are falsy, any other string is truthy
Truthy(v) == v.t = "string" /\ v.s # <<>>

DigitVal(c) ==
    CASE c = "0" -> 0 [] c = "1" -> 1 [] c = "2" -> 2 [] c = "3" -> 3
      [] c = "4" -> 4 [] c = "5" -> 5 [] c = "6" -> 6 [] c = "7" -> 7
      [] c = "8" -> 8 [] c = "9" -> 9

\* Number("...") of a string of decimal digits
RECURSIVE ToNumber(_)
ToNumber(str) ==
    IF str = <<>> THEN 0
    ELSE 10 * ToNumber(SubSeq(str, 1, Len(str) - 1)) + DigitVal(str[Len(str)])

Min(x, y) == IF x < y THEN x ELSE y
Max(x, y) == IF x > y THEN x ELSE y

\* Array.prototype.slice(start, end)
SliceIndex(k, len) == IF k < 0 THEN Max(len + k, 0) ELSE Min(k, len)
Slice(arr, start, end) ==
    SubSeq(arr, SliceIndex(start, Len(arr)) + 1, SliceIndex(end, Len(arr)))

-----------------------------------------------------------------------------
(* The database: tutor_post joined with users, course and major *)

FirstNames == << <<"A", "l">>, <<"B", "o">>, <<"C", "y">> >>
LastNames == << <<"A", "b">>, <<"L", "o">> >>
MajorShortNames == << <<"c", "s">>, <<"m", "a">> >>

NullBlob == [isNull |-> TRUE, bytes |-> 0]
Blob(b) == [isNull |-> FALSE, bytes |-> b]

\* Row i of a table laid out by v.  Layout 0 has every row approved; the other
\* layouts have unapproved rows among the approved ones.  Names, majors and
\* null thumbnails vary along the table.
PostRow(i, v) ==
    [ user_id |-> i,
      first_name |-> FirstNames[((i + v) % 3) + 1],
      last_name |-> LastNames[(i % 2) + 1],
      major_short_name |-> MajorShortNames[(((i + v) \div 2) % 2) + 1],
      admin_approved |-> IF v # 0 /\ (i + v) % 3 = 0 THEN 0 ELSE 1,
      thumbnail |-> IF (i + 2 * v) % 4 = 2 THEN NullBlob ELSE Blob(i) ]

Table(len, v) == [i \in 1..len |-> PostRow(i, v)]

Tables == {Table(len, v) : len \in 0..MaxPosts, v \in 0..(Layouts - 1)}

\* Values a query-string parameter takes: absent, empty, or a word.
SearchTerms == {JsUndef, EmptyStr, JsStr(<<"a">>), JsStr(<<"l", "o">>)}
Categories == {JsUndef, EmptyStr, JsStr(<<"c", "s">>), JsStr(<<"m", "a">>)}
PageDigits == <<"0", "1", "2", "3", "4", "5", "6", "7", "8", "9">>
Pages == {JsUndef, EmptyStr} \cup {JsStr(<<PageDigits[k + 1]>>) : k \in 0..MaxPage}

-----------------------------------------------------------------------------
(* The SQL text search() builds.  A text is a sequence of pieces; a piece  *)
(* is a space, a punctuation character, or a run of identifier characters. *)
(* Two adjacent identifier pieces read as one identifier, as in SQL.       *)

\* SELECT ... FROM tutor_post JOIN users ... JOIN course ... JOIN major ...,
\* the same in the four variants, up to and including the approval condition
SelectApproved ==
    <<"SELECT_FROM_JOIN", " ", "WHERE", " ", "tutor_post.admin_approved", " ",
      "=", " ", "1">>

NameFilter(searchTerm) ==
    <<"(", "users.first_name", " ", "LIKE", " ", "'", "%">>
      \o Interpolate(searchTerm)
      \o <<"%", "'", " ", "OR", " ", "users.last_name", " ", "LIKE", " ", "'", "%">>
      \o Interpolate(searchTerm) \o <<"%", "'", ")">>

MajorFilter(category) ==
    <<"major.major_short_name", " ", "=", " ", "'">>
      \o Interpolate(category) \o <<"'">>

\* search(): the query text for a term and a category; the keyword AND and
\* the condition after it are concatenated with nothing between them
BuildQuery(searchTerm, category) ==
    IF searchTerm # EmptyStr /\ category # EmptyStr
    THEN SelectApproved \o <<" ", "AND">> \o NameFilter(searchTerm)
    ELSE IF searchTerm # EmptyStr /\ category = EmptyStr
    THEN SelectApproved \o <<" ", "AND">> \o NameFilter(searchTerm)
    ELSE IF searchTerm = EmptyStr /\ category # EmptyStr
    THEN SelectApproved \o <<" ", "AND">> \o MajorFilter(category)
    ELSE SelectApproved

-----------------------------------------------------------------------------
(* The database engine: tokenise, parse, evaluate *)

Spaces == {" "}
Puncts == {"(", ")", "=", "%"}
Quote == "'"

Word(w) == [k |-> "word", w |-> w]
Punct(c) == [k |-> "punct", w |-> <<c>>]
StrLit(w) == [k |-> "string", w |-> w]
BadToken == [k |-> "error", w |-> <<>>]

SetMin(S) == CHOOSE x \in S : \A y \in S : x <= y

\* The tokens of text ps, in order.  A position lies inside a string literal,
\* or closes one, when an odd number of quotes precedes it.  Outside literals
\* a token is a punctuation character, a string literal up to its closing
\* quote, or the longest run of adjacent identifier pieces.
Lex(ps) ==
    LET n == Len(ps)
        quotes == {j \in 1..n : ps[j] = Quote}
        inString == [i \in 1..n |->
                        Cardinality({j \in quotes : j < i}) % 2 = 1]
        isWord == [i \in 1..n |->
                      /\ ~inString[i]
                      /\ ps[i] # Quote
                      /\ ps[i] \notin Spaces
                      /\ ps[i] \notin Puncts]
        starts == {i \in 1..n :
                      /\ ~inString[i]
                      /\ \/ ps[i] = Quote
                         \/ ps[i] \in Puncts
                         \/ isWord[i] /\ (i = 1 \/ ~isWord[i - 1])}
        tokenAt(i) ==
            IF ps[i] \in Puncts THEN Punct(ps[i])
            ELSE IF ps[i] = Quote
            THEN LET closing == {j \in quotes : j > i} IN
                 IF closing = {} THEN BadToken
                 ELSE StrLit(SubSeq(ps, i + 1, SetMin(closing) - 1))
            ELSE Word(SubSeq(ps, i,
                        SetMin({j \in i..n : j = n \/ ~isWord[j + 1]})))
        order == [i \in starts |-> Cardinality({x \in starts : x <= i})]
    IN [k \in 1..Cardinality(starts) |->
           tokenAt(CHOOSE i \in starts : order[i] = k)]

KW(w) == Word(<<w>>)

SyntaxError == [ok |-> FALSE, kind |-> "error", lit |-> <<>>, lit2 |-> <<>>]
Parsed(kind, lit, lit2) == [ok |-> TRUE, kind |-> kind, lit |-> lit, lit2 |-> lit2]

ApprovedTokens ==
    <<KW("SELECT_FROM_JOIN"), KW("WHERE"), KW("tutor_post.admin_approved"),
      Punct("="), KW("1")>>

IsNameFilter(r) ==
    /\ Len(r) = 10
    /\ r[1] = KW("AND") /\ r[2] = Punct("(")
    /\ r[3] = KW("users.first_name") /\ r[4] = KW("LIKE") /\ r[5].k = "string"
    /\ r[6] = KW("OR")
    /\ r[7] = KW("users.last_name") /\ r[8] = KW("LIKE") /\ r[9].k = "string"
    /\ r[10] = Punct(")")

IsMajorFilter(r) ==
    /\ Len(r) = 4
    /\ r[1] = KW("AND") /\ r[2] = KW("major.major_short_name")
    /\ r[3] = Punct("=") /\ r[4].k = "string"

\* The statements of the grammar the handler's texts fall in; any other
\* token sequence is a syntax error (ER_PARSE_ERROR).
Parse(toks) ==
    IF Len(toks) < 5 \/ SubSeq(toks, 1, 5) # ApprovedTokens THEN SyntaxError
    ELSE LET r == SubSeq(toks, 6, Len(toks)) IN
         IF r = <<>> THEN Parsed("all", <<>>, <<>>)
         ELSE IF IsNameFilter(r) THEN Parsed("name", r[5].w, r[9].w)
         ELSE IF IsMajorFilter(r) THEN Parsed("major", r[4].w, <<>>)
         ELSE SyntaxError

\* the default collation compares letters without regard to case
Lower(c) ==
    CASE c = "A" -> "a" [] c = "B" -> "b" [] c = "C" -> "c" [] c = "L" -> "l"
      [] OTHER -> c

\* str LIKE pat, with % matching any run of characters
RECURSIVE Like(_, _)
Like(str, pat) ==
    IF pat = <<>> THEN str = <<>>
    ELSE IF pat[1] = "%"
    THEN \E k \in 0..Len(str) : Like(SubSeq(str, k + 1, Len(str)), Tail(pat))
    ELSE /\ str # <<>>
         /\ Lower(str[1]) = Lower(pat[1])
         /\ Like(Tail(str), Tail(pat))

SqlEquals(x, y) ==
    /\ Len(x) = Len(y)
    /\ \A i \in 1..Len(x) : Lower(x[i]) = Lower(y[i])

Matches(row, q) ==
    /\ row.admin_approved = 1
    /\ q.kind = "name" =>
          Like(row.first_name, q.lit) \/ Like(row.last_name, q.lit2)
    /\ q.kind = "major" => SqlEquals(row.major_short_name, q.lit)

\* the rows of table that satisfy q, in table order
SelectRows(table, q) == SelectSeq(table, LAMBDA row : Matches(row, q))

\* database.query(text, cb): what cb receives when the connection is up
Execute(text, table) ==
    LET q == Parse(Lex(text)) IN
    IF q.ok THEN [err |-> FALSE, result |-> SelectRows(table, q)]
    ELSE [err |-> TRUE, result |-> <<>>]

-----------------------------------------------------------------------------
(* search() and the route that renders its result *)

PageSize == 5

\* pageNum = 0; if(request.query.page) pageNum = request.query.page - 1
PageNumOf(page) == IF Truthy(page) THEN ToNumber(page.s) - 1 ELSE 0

\* the thumbnails of the rows that have one, base64-encoded, in row order
Base64(blob) == [b64 |-> blob.bytes]
Thumbnails(result) ==
    LET withThumbnail == SelectSeq(result, LAMBDA row : row.thumbnail # NullBlob)
    IN [i \in 1..Len(withThumbnail) |-> Base64(withThumbnail[i].thumbnail)]

PageWindowShifted(arr, pageNum) ==
    Slice(arr, pageNum * PageSize + 1, (pageNum * PageSize) + PageSize + 1)
\* arr.slice(pageNum * 5, (pageNum * 5) + 5)
PageWindow(arr, pageNum) ==
    Slice(arr, pageNum * PageSize, (pageNum * PageSize) + PageSize)

UpperBoundUnclamped(pageNum, len) == (pageNum * PageSize) + PageSize
\* upperBound = pageNum * 5 + 5, replaced by result.length when larger
UpperBound(pageNum, len) ==
    IF (pageNum * PageSize) + PageSize > len THEN len
    ELSE (pageNum * PageSize) + PageSize

LowerBound(pageNum) == (pageNum * PageSize) + 1

\* a request object on which search() has set nothing yet
FreshRequest ==
    [ searchResult |-> JsUndef, searchTerm |-> JsUndef, category |-> JsUndef,
      images |-> JsUndef, pageNum |-> JsUndef, upperBound |-> JsUndef,
      lowerBound |-> JsUndef, thumbnails |-> JsUndef, totalNum |-> JsUndef ]

\* the defaults the query callback appends before it looks at err
DefaultRequest(req, pageNum) ==
    [req EXCEPT !.searchResult = EmptyStr, !.searchTerm = EmptyStr,
                !.category = EmptyStr, !.images = JsArr(<<>>),
                !.pageNum = JsNum(pageNum), !.upperBound = EmptyStr,
                !.lowerBound = EmptyStr]

\* the else branch of the query callback
FilledRequest(req, params, pageNum, result) ==
    [req EXCEPT !.searchTerm = params.search,
                !.category = params.category,
                !.searchResult = JsArr(PageWindow(result, pageNum)),
                !.thumbnails = JsArr(PageWindow(Thumbnails(result), pageNum)),
                !.totalNum = JsNum(Len(result)),
                !.upperBound = JsNum(UpperBound(pageNum, Len(result))),
                !.lowerBound = JsNum(LowerBound(pageNum))]

NoView ==
    [ results |-> JsUndef, pageNum |-> JsUndef, searchTerm |-> JsUndef,
      searchResult |-> JsUndef, category |-> JsUndef, images |-> JsUndef,
      totalNum |-> JsUndef, upperBound |-> JsUndef, lowerBound |-> JsUndef ]

\* router.get('/'): the locals of res.render("search", ...)
SearchView(req) ==
    [ results |-> JsNum(1),
      pageNum |-> req.pageNum,
      searchTerm |-> req.searchTerm,
      searchResult |-> IF req.searchResult.t = "array" THEN req.searchResult
                       ELSE JsArr(<<>>),
      category |-> req.category,
      images |-> req.thumbnails,
      totalNum |-> req.totalNum,
      upperBound |-> req.upperBound,
      lowerBound |-> req.lowerBound ]

SearchAt(table, pc) ==
    /\ tutor_post = table
    /\ sPc = pc
    /\ sQueryParams = [search |-> JsUndef, category |-> JsUndef, page |-> JsUndef]
    /\ sPageNum = 0
    /\ sQuery = <<>>
    /\ sDbDown = FALSE
    /\ sErr = FALSE
    /\ sResult = <<>>
    /\ sRequest = FreshRequest
    /\ sCallbacks = 0
    /\ sView = NoView

\* search(request, response, callback) up to database.query(query, ...)
search ==
    /\ sPc = "idle"
    /\ \E term \in SearchTerms, cat \in Categories, page \in Pages :
          /\ sQueryParams' = [search |-> term, category |-> cat, page |-> page]
          /\ sPageNum' = PageNumOf(page)
          /\ sQuery' = BuildQuery(term, cat)
    /\ sPc' = "querying"
    /\ sDbDown' = FALSE
    /\ sErr' = FALSE
    /\ sResult' = <<>>
    /\ sRequest' = FreshRequest
    /\ sCallbacks' = 0
    /\ sView' = NoView
    /\ UNCHANGED <<tutor_post, categoryVars, dashboardVars, postVars>>

\* the callback of database.query in search(), and the route handler that
\* callback() runs
searchQueryCallback ==
    /\ sPc = "querying"
    /\ \E down \in BOOLEAN :
          LET out == IF down THEN [err |-> TRUE, result |-> <<>>]
                     ELSE Execute(sQuery, tutor_post)
              req == IF out.err THEN DefaultRequest(sRequest, sPageNum)
                     ELSE FilledRequest(DefaultRequest(sRequest, sPageNum),
                                        sQueryParams, sPageNum, out.result)
          IN /\ sDbDown' = down
             /\ sErr' = out.err
             /\ sResult' = out.result
             /\ sRequest' = req
             /\ sView' = SearchView(req)
    /\ sCallbacks' = sCallbacks + 1
    /\ sPc' = "rendered"
    /\ UNCHANGED <<tutor_post, sQueryParams, sPageNum, sQuery, categoryVars,
                   dashboardVars, postVars>>

-----------------------------------------------------------------------------
(* getSearchCategories() *)

MajorRows ==
    { [major_short_name |-> <<"c", "s">>, major_long_name |-> <<"C", "S">>],
      [major_short_name |-> <<"m", "a">>, major_long_name |-> <<"M", "A">>],
      [major_short_name |-> <<"b", "i">>, major_long_name |-> <<"B", "I">>],
      [major_short_name |-> <<"a", "r">>, major_long_name |-> <<"A">>] }

\* tables of distinct majors, in any order
MajorTables ==
    UNION { {t \in [1..len -> MajorRows] :
                \A i, j \in 1..len : t[i] = t[j] => i = j} : len \in 0..MaxMajors }

MajorsShortName(result) == [i \in 1..Len(result) |-> result[i].major_short_name]

MajorsLongNameFromShort(result) ==
    [i \in 1..Len(result) |-> result[i].major_short_name]
\* the values pushed on request.majors_long_name by the loop
MajorsLongName(result) == [i \in 1..Len(result) |-> result[i].major_long_name]

CategoriesAt(table, pc) ==
    /\ major = table
    /\ cPc = pc
    /\ cErr = FALSE
    /\ cResult = <<>>
    /\ cRequest = [majors_short_name |-> JsUndef, majors_long_name |-> JsUndef]
    /\ cLocals = [searchCategoriesShortName |-> JsUndef,
                  searchCategoriesLongName |-> JsUndef]
    /\ cCallbacks = 0

\* getSearchCategories(request, response, callback) up to database.query
getSearchCategories ==
    /\ cPc = "idle"
    /\ cPc' = "querying"
    /\ UNCHANGED <<major, cErr, cResult, cRequest, cLocals, cCallbacks>>
    /\ UNCHANGED <<searchVars, dashboardVars, postVars>>

\* the callback of database.query in getSearchCategories(); SELECT * FROM
\* major fails only when the connection does
getSearchCategoriesCallback ==
    /\ cPc = "querying"
    /\ \E down \in BOOLEAN :
          LET result == IF down THEN <<>> ELSE major
              short == JsArr(IF down THEN <<>> ELSE MajorsShortName(result))
              long == JsArr(IF down THEN <<>> ELSE MajorsLongName(result))
          IN /\ cErr' = down
             /\ cResult' = result
             /\ cRequest' = [majors_short_name |-> short, majors_long_name |-> long]
             /\ cLocals' = IF down THEN cLocals
                           ELSE [searchCategoriesShortName |-> short,
                                 searchCategoriesLongName |-> long]
    /\ cCallbacks' = cCallbacks + 1
    /\ cPc' = "done"
    /\ UNCHANGED <<major, searchVars, dashboardVars, postVars>>

-----------------------------------------------------------------------------
(* GET /dashboard and loadDashboard() *)

MessageRow(i, unread) ==
    [ message_id |-> i,
      is_unread |-> unread,
      from_user_first_name |-> FirstNames[(i % 3) + 1],
      from_user_last_name |-> LastNames[(i % 2) + 1],
      message_text |-> <<"m", PageDigits[i + 1]>>,
      date_sent |-> 100 - i ]

\* result sets of the message query: newest first, any mix of read and unread
MessageTables ==
    UNION { {[i \in 1..len |-> MessageRow(i, flags[i])] :
                flags \in [1..len -> {0, 1}]} : len \in 0..MaxMessages }

\* result[1] in the status test: the second row, whatever row the loop is at
StatusRow(result, i) == 2

\* the status test reads a row the result does not have
LoopThrows(result) ==
    \E i \in 1..Len(result) : StatusRow(result, i) > Len(result)

\* the entry pushed for row i of result
DashboardEntry(result, i) ==
    [ tutorName |-> result[i].from_user_first_name \o <<" ">>
                        \o result[i].from_user_last_name,
      messageText |-> result[i].message_text,
      dateTime |-> result[i].date_sent,
      status |-> IF result[StatusRow(result, i)].is_unread # 0
                 THEN "Unread" ELSE "Read" ]

DashboardMessages(result) == [i \in 1..Len(result) |-> DashboardEntry(result, i)]

Redirect(url) == [kind |-> "redirect", target |-> url, messages |-> <<>>]
Render(view, msgs) == [kind |-> "render", target |-> view, messages |-> msgs]

DashboardAt(table, session, pc) ==
    /\ messages = table
    /\ dSession = session
    /\ dPc = pc
    /\ dLoginValidated = "unset"
    /\ dQueries = 0
    /\ dErr = FALSE
    /\ dResult = <<>>
    /\ dResponses = <<>>

\* login.validateUser: records on the request whether the session is logged
\* in, and continues
validateUser ==
    /\ dPc = "idle"
    /\ dLoginValidated' = IF dSession THEN "true" ELSE "false"
    /\ dPc' = "validated"
    /\ UNCHANGED <<messages, dSession, dQueries, dErr, dResult, dResponses>>
    /\ UNCHANGED <<searchVars, categoryVars, postVars>>

LoginRejectedWhenValidated(loginValidated) == loginValidated = "true"
\* req.loginValidated === false
LoginRejected(loginValidated) == loginValidated = "false"

\* router.get('/') of the dashboard: redirect, or loadDashboard() up to
\* database.query
dashboardRoute ==
    /\ dPc = "validated"
    /\ IF LoginRejected(dLoginValidated)
       THEN /\ dResponses' = Append(dResponses, Redirect("/login"))
            /\ dPc' = "redirected"
            /\ UNCHANGED dQueries
       ELSE /\ dQueries' = dQueries + 1
            /\ dPc' = "querying"
            /\ UNCHANGED dResponses
    /\ UNCHANGED <<messages, dSession, dLoginValidated, dErr, dResult>>
    /\ UNCHANGED <<searchVars, categoryVars, postVars>>

\* the callback of database.query in loadDashboard(); the query has no user
\* input in it and fails only when the connection does
loadDashboardCallback ==
    /\ dPc = "querying"
    /\ \E down \in BOOLEAN :
          /\ dErr' = down
          /\ dResult' = IF down THEN <<>> ELSE messages
          /\ IF down
             THEN /\ dResponses' = Append(dResponses, Render("studentDashboard", <<>>))
                  /\ dPc' = "rendered"
             ELSE IF LoopThrows(messages)
             THEN /\ dPc' = "threw"
                  /\ UNCHANGED dResponses
             ELSE /\ dResponses' = Append(dResponses,
                        Render("studentDashboard", DashboardMessages(messages)))
                  /\ dPc' = "rendered"
    /\ UNCHANGED <<messages, dSession, dLoginValidated, dQueries>>
    /\ UNCHANGED <<searchVars, categoryVars, postVars>>

-----------------------------------------------------------------------------
(* POST /tutor-post and createTutorPost() *)

\* the requests in flight
Requests == {"A", "B"}

Uploads == {"none", "image", "corrupt"}

NoFile == [resizedFrom |-> "nothing"]
\* the output of sharp(request.file.buffer).resize(600, null) for request r
Resized(r) == [resizedFrom |-> r]

TmpPathPerRequest(r) == r
\* .toFile(`tmp.png`): the same path for every request
TmpPath(r) == "tmp.png"

Paths == {"tmp.png"} \cup {TmpPath(r) : r \in Requests}

PostAt(pc) ==
    /\ pPc = [r \in Requests |-> pc]
    /\ pFile = [r \in Requests |-> "none"]
    /\ pRedirects = [r \in Requests |-> 0]
    /\ fs = [path \in Paths |-> NoFile]
    /\ pWrites = <<>>
    /\ pCrashed = FALSE

\* router.post('/') and createTutorPost() up to its return: request.file is
\* undefined without an upload and reading its buffer throws; otherwise the
\* resize is started and the continuation redirects at once
postRoute(r) ==
    /\ ~pCrashed
    /\ pPc[r] = "idle"
    /\ \E upload \in Uploads :
          /\ pFile' = [pFile EXCEPT ![r] = upload]
          /\ IF upload = "none"
             THEN /\ pPc' = [pPc EXCEPT ![r] = "threw"]
                  /\ UNCHANGED pRedirects
             ELSE /\ pPc' = [pPc EXCEPT ![r] = "resizing"]
                  /\ pRedirects' = [pRedirects EXCEPT ![r] = @ + 1]
    /\ UNCHANGED <<fs, pWrites, pCrashed>>
    /\ UNCHANGED <<searchVars, categoryVars, dashboardVars>>

\* .then(data => ...): the resized image is in the file; the major lookup is
\* issued
resizeResolved(r) ==
    /\ ~pCrashed
    /\ pPc[r] = "resizing"
    /\ pFile[r] = "image"
    /\ fs' = [fs EXCEPT ![TmpPath(r)] = Resized(r)]
    /\ pWrites' = Append(pWrites, r)
    /\ pPc' = [pPc EXCEPT ![r] = "majorQuery"]
    /\ UNCHANGED <<pFile, pRedirects, pCrashed>>
    /\ UNCHANGED <<searchVars, categoryVars, dashboardVars>>

\* .catch(err => ...): the resize failed (an upload that is no image, or a
\* write that fails) and the error is logged
resizeRejected(r) ==
    /\ ~pCrashed
    /\ pPc[r] = "resizing"
    /\ pPc' = [pPc EXCEPT ![r] = "failed"]
    /\ UNCHANGED <<pFile, pRedirects, fs, pWrites, pCrashed>>
    /\ UNCHANGED <<searchVars, categoryVars, dashboardVars>>

\* the callback of the major lookup, an async function: an error, or a result
\* without a first row, rejects its promise; otherwise the course lookup is
\* issued
majorIdCallback(r) ==
    /\ ~pCrashed
    /\ pPc[r] = "majorQuery"
    /\ \E err \in BOOLEAN, rows \in 0..1 :
          pPc' = [pPc EXCEPT ![r] = IF err \/ rows = 0 THEN "rejected"
                                    ELSE "courseQuery"]
    /\ UNCHANGED <<pFile, pRedirects, fs, pWrites, pCrashed>>
    /\ UNCHANGED <<searchVars, categoryVars, dashboardVars>>

\* the callback of the course lookup: an error is thrown out of the callback
\* and ends the process; otherwise nothing more is done (the insert is
\* commented out)
courseIdCallback(r) ==
    /\ ~pCrashed
    /\ pPc[r] = "courseQuery"
    /\ \E err \in BOOLEAN :
          IF err THEN /\ pCrashed' = TRUE
                      /\ UNCHANGED pPc
          ELSE /\ pPc' = [pPc EXCEPT ![r] = "done"]
               /\ UNCHANGED pCrashed
    /\ UNCHANGED <<pFile, pRedirects, fs, pWrites>>
    /\ UNCHANGED <<searchVars, categoryVars, dashboardVars>>

-----------------------------------------------------------------------------
(* Specifications: one per route.  A request of one route shares no state  *)
(* with the requests of another, so each route is checked with the others  *)
(* switched off.                                                           *)

SearchOff == SearchAt(<<>>, "off")
CategoriesOff == CategoriesAt(<<>>, "off")
DashboardOff == DashboardAt(<<>>, FALSE, "off")
PostOff == PostAt("off")

InitSearch ==
    /\ \E table \in Tables : SearchAt(table, "idle")
    /\ CategoriesOff /\ DashboardOff /\ PostOff

NextSearch == search \/ searchQueryCallback

SpecSearch == InitSearch /\ [][NextSearch]_vars

InitCategories ==
    /\ \E table \in MajorTables : CategoriesAt(table, "idle")
    /\ SearchOff /\ DashboardOff /\ PostOff

NextCategories == getSearchCategories \/ getSearchCategoriesCallback

SpecCategories == InitCategories /\ [][NextCategories]_vars

InitDashboard ==
    /\ \E table \in MessageTables, session \in BOOLEAN :
          DashboardAt(table, session, "idle")
    /\ SearchOff /\ CategoriesOff /\ PostOff

NextDashboard == validateUser \/ dashboardRoute \/ loadDashboardCallback

SpecDashboard == InitDashboard /\ [][NextDashboard]_vars

InitPost == PostAt("idle") /\ SearchOff /\ CategoriesOff /\ DashboardOff

NextPost ==
    \E r \in Requests :
        \/ postRoute(r)
        \/ resizeResolved(r)
        \/ resizeRejected(r)
        \/ majorIdCallback(r)
        \/ courseIdCallback(r)

SpecPost == InitPost /\ [][NextPost]_vars

-----------------------------------------------------------------------------
(* Properties of search() *)

SearchSucceeded == sPc = "rendered" /\ ~sErr

\* the rows of table whose approval flag is set, in table order
ApprovedRows(table) == SelectSeq(table, LAMBDA row : row.admin_approved = 1)

ApprovedRowsOfMajor(table, shortName) ==
    SelectSeq(table, LAMBDA row : row.admin_approved = 1
                                    /\ row.major_short_name = shortName)

WindowLen(p, n) == Min(PageSize, Max(0, n - PageSize * p))

C2_Bounds ==
    SearchSucceeded /\ sPageNum >= 0 =>
        /\ sRequest.upperBound = JsNum(Min(5 * sPageNum + 5, Len(sResult)))
        /\ sRequest.lowerBound = JsNum(5 * sPageNum + 1)
        /\ sRequest.totalNum = JsNum(Len(sResult))

\* an empty result on a page past the first: the upper bound is clamped to 0
C2_Witness ==
    /\ SearchSucceeded
    /\ Len(sResult) = 0
    /\ sPageNum = 1
    /\ sRequest.upperBound = JsNum(0)
    /\ sRequest.lowerBound = JsNum(6)

NotSupplied(v) == v = JsUndef \/ v = EmptyStr

\* C3: with the connection up, a request that supplies neither a term nor a
\* category (each empty or absent) gets exactly the approved posts.
C3_NoFilterReturnsAllApproved ==
    /\ sPc = "rendered" /\ ~sDbDown
    /\ NotSupplied(sQueryParams.search) /\ NotSupplied(sQueryParams.category)
    => /\ ~sErr
       /\ sResult = ApprovedRows(tutor_post)

\* C4: with the connection up, an empty term and a non-empty category give a
\* query that executes and returns exactly the approved posts of that major.
C4_CategoryOnly ==
    /\ sPc = "rendered" /\ ~sDbDown
    /\ sQueryParams.search = EmptyStr
    /\ Truthy(sQueryParams.category)
    => /\ ~sErr
       /\ sResult = ApprovedRowsOfMajor(tutor_post, sQueryParams.category.s)

\* C5: when the query fails the continuation has run exactly once and the
\* renderer got only empty values: no rows, empty term and category, an empty
\* image list, empty bounds.
C5_ErrorRendersEmpty ==
    sPc = "rendered" /\ sErr =>
        /\ sCallbacks = 1
        /\ sView.searchResult = JsArr(<<>>)
        /\ sView.searchTerm = EmptyStr
        /\ sView.category = EmptyStr
        /\ sView.images = JsArr(<<>>)
        /\ sView.upperBound = EmptyStr
        /\ sView.lowerBound = EmptyStr

\* C11: after a successful query with page index p >= 0 the thumbnail window is
\* aligned with the row window: entry i of request.thumbnails is the base64
\* encoding of the thumbnail of row i of request.searchResult, also when some
\* rows of the result have a null thumbnail.  A row whose thumbnail is null
\* has nothing to encode, and is asked nothing here.
C11_ThumbnailsAligned ==
    SearchSucceeded /\ sPageNum >= 0 =>
        /\ sRequest.thumbnails.t = "array"
        /\ \A i \in 1..Len(sRequest.searchResult.a) :
              sRequest.searchResult.a[i].thumbnail # NullBlob =>
                  /\ i <= Len(sRequest.thumbnails.a)
                  /\ sRequest.thumbnails.a[i] =
                        Base64(sRequest.searchResult.a[i].thumbnail)

-----------------------------------------------------------------------------
(* Properties of getSearchCategories() *)

EmptyOrUnset(v) == v = JsUndef \/ v = JsArr(<<>>)

-----------------------------------------------------------------------------
(* Properties of the dashboard *)

\* C7: the message query is issued and the dashboard view rendered only for a
\* request the login gate validated; a request that is not authenticated gets
\* the redirect to /login as its one response and issues no message query.
C7_DashboardGate ==
    /\ dQueries > 0 => dSession /\ dLoginValidated = "true"
    /\ \A i \in 1..Len(dResponses) :
          dResponses[i].kind = "render" => dSession /\ dLoginValidated = "true"
    /\ ~dSession /\ dPc \in {"redirected", "querying", "rendered", "threw"} =>
          /\ dResponses = <<Redirect("/login")>>
          /\ dQueries = 0
    /\ Len(dResponses) <= 1

\* a request without a login, with messages waiting, has been redirected
C7_Witness ==
    /\ ~dSession
    /\ dPc = "redirected"
    /\ Len(messages) = 2
    /\ dResponses = <<Redirect("/login")>>

\* C8: for every result set of n >= 0 rows the callback raises no error and
\* renders one view whose messages are n entries in result order, entry i
\* built from row i with status "Read" or "Unread".
C8_DashboardRendersEveryResult ==
    dPc \in {"rendered", "threw"} /\ ~dErr =>
        /\ dPc = "rendered"
        /\ Len(dResponses) = 1
        /\ dResponses[1].kind = "render"
        /\ Len(dResponses[1].messages) = Len(dResult)
        /\ \A i \in 1..Len(dResult) :
              /\ dResponses[1].messages[i].tutorName =
                    dResult[i].from_user_first_name \o <<" ">>
                        \o dResult[i].from_user_last_name
              /\ dResponses[1].messages[i].messageText = dResult[i].message_text
              /\ dResponses[1].messages[i].dateTime = dResult[i].date_sent
              /\ dResponses[1].messages[i].status \in {"Read", "Unread"}

-----------------------------------------------------------------------------
(* Properties of the tutor post *)

\* C9: a request has been redirected only if its resize and its major and
\* course lookups have completed without error.
C9_RedirectOnlyOnSuccess ==
    \A r \in Requests : pRedirects[r] > 0 => pPc[r] = "done"

\* C10: the temporary file is one file for all requests: once any resize has
\* written, tmp.png holds the image of the request whose resize completed
\* last, whichever request is waiting for its lookup callbacks.
C10_SharedTmpFile ==
    pWrites # <<>> => fs["tmp.png"] = Resized(pWrites[Len(pWrites)])

\* A waits for its major lookup callback and tmp.png, written for A, now
\* holds B's image
C10_Witness ==
    /\ pPc["A"] = "majorQuery"
    /\ pWrites = <<"A", "B">>
    /\ fs["tmp.png"] = Resized("B")
    /\ fs["tmp.png"] # Resized("A")

=============================================================================
